---------------------------- MODULE Spec2Model ----------------------------
(***************************************************************************)
(* Connect-4 AI: the board (board.py), the transposition table             *)
(* (transposition_table.py), the minimax search with alpha-beta pruning    *)
(* (alpha_beta_pruning.py), the click handler (game.py) and the play loop  *)
(* (play.py).                                                              *)
(*                                                                         *)
(* Rows and columns are numbered from 0 as in the source; row 0 is the top *)
(* row of the grid and row Rows-1 the bottom one.  A grid cell holds a     *)
(* reference to one of the two Player objects, modelled by the player's    *)
(* index in the players tuple (0 or 1), or None.                           *)
(***************************************************************************)
EXTENDS Integers, Sequences, FiniteSets, TLC

\* ---------------------------------------------------------------- bounds
\* The board of the model (the program plays on 6 x 7).
Rows == 4
Columns == 4
\* SpecBoard places at most this many pieces.
MaxPieces == 4
\* SpecSearch: the pieces on the board when minimax is called, the calls of
\* minimax, and the depth a call is given.
SearchPieces == 2
MaxCalls == 2
MaxDepth == 2
\* SpecWin: the pieces on the board and the depth of the call.
WinPieces == 8
WinDepth == 3
\* SpecDeep: the pieces on the board and the depth of the call.
DeepPieces == 4
DeepDepth == 4
\* SpecOrder: boards of OrderRows rows and 1 .. MaxColumns columns.
OrderRows == 2
MaxColumns == 7
\* SpecGame: the board of the whole games.
GameRows == 3
GameColumns == 4
\* SpecPlay: the pieces on the board when the last turn is taken.
PlayPieces == 4
\* SpecOpening: the pieces clicked onto the board of the program.
OpeningPieces == 2
\* SpecTable: the capacity of the table, and the gets and puts made.
TableCap == 2
MaxOps == 4

\* ------------------------------------------------------ program constants
VICTORY_VALUE == 100000000
LOSS_VALUE == -VICTORY_VALUE
SEQ_LENGTH == 4
GRID_OFFSET == 80
ROW_COUNT == 6
COLUMN_COUNT == 7
SQUARE_WIDTH == 50
MAX_DEPTH == 2
TABLE_SIZE == 8192

\* None in a slot that holds a number (a cell, a row, a column, a move), the
\* two infinities of math.inf (beyond every heuristic value), and None in a key.
None == -9
KeyNone == "None"
NoError == "None"
PosInf == 2147483647
NegInf == -PosInf

\* The <<alpha, beta>> a call of minimax is given: the default, and a window
\* that values of the first positions fall below, inside and above.
Windows == {<<NegInf, PosInf>>, <<0, 20>>}

Symbols == <<"X", "O">>
PlayerTypes == {"HUMAN", "AI"}

VARIABLES
    players,    \* the two Player objects: their symbol and type
    board,      \* the live Board object: its grid and active player index
    tt,         \* the transposition table, least recently used entry first
    held,       \* <<key>> of the table entry whose best_move is the live Board
                \* object itself, <<>> when no entry refers to it
    last,       \* the board operation performed last, its arguments and outcome
    calls       \* the calls of minimax made so far, with what each returned

vars == <<players, board, tt, held, last, calls>>

RowRange == 0 .. Rows - 1
ColRange == 0 .. Columns - 1

Max(a, b) == IF a >= b THEN a ELSE b
Min(a, b) == IF a <= b THEN a ELSE b

\* ------------------------------------------------------------- board.py
\* Board.__init__: the default grid of a board of the given size.
new_grid(rows, columns) == [r \in 0 .. rows - 1 |-> [c \in 0 .. columns - 1 |-> None]]

EmptyGrid == new_grid(Rows, Columns)

\* self.__rows and self.__columns: the size of the grid the board was made with.
rows_of(b) == Cardinality(DOMAIN b.grid)
columns_of(b) == Cardinality(DOMAIN b.grid[0])

NewBoard(grid, idx) == [grid |-> grid, active_player_index |-> idx]

\* Board.__column_is_full
column_is_full(b, column) == b.grid[0][column] # None

\* Board.__check_for_draw
check_for_draw(b) == \A column \in DOMAIN b.grid[0] : column_is_full(b, column)

\* Board.__next_open_row: the while loop, from the bottom row upwards.
RECURSIVE open_row_from(_, _, _)
open_row_from(b, column, row) ==
    IF row >= 0 /\ b.grid[row][column] # None
    THEN open_row_from(b, column, row - 1)
    ELSE row

\* A variant of __next_open_row that takes the top row of a column that is not
\* full instead of walking up from the bottom.
next_open_row_top(b, column) ==
    IF column_is_full(b, column) THEN None ELSE 0

next_open_row(b, column) ==
    IF column_is_full(b, column) THEN None
    ELSE open_row_from(b, column, rows_of(b) - 1)

\* A variant of place_piece without the test for a full column: the piece
\* replaces the one in the top cell and nothing is raised.
place_piece_unchecked(b, column) ==
    IF column < 0 \/ column >= columns_of(b)
    THEN [error |-> "ColumnOutOfBoundsException", board |-> b]
    ELSE LET row == IF column_is_full(b, column) THEN 0 ELSE next_open_row(b, column) IN
         [error |-> NoError,
          board |-> [b EXCEPT !.grid[row][column] = b.active_player_index]]

\* A variant of place_piece that also passes the turn to the other player.
place_piece_turning(b, column) ==
    IF column < 0 \/ column >= columns_of(b)
    THEN [error |-> "ColumnOutOfBoundsException", board |-> b]
    ELSE LET row == next_open_row(b, column) IN
         IF row = None
         THEN [error |-> "ColumnFullException", board |-> b]
         ELSE [error |-> NoError,
               board |-> [grid |-> [b.grid EXCEPT ![row][column] = b.active_player_index],
                          active_player_index |-> 1 - b.active_player_index]]

\* Board.place_piece: the exception raised (or None) and the board after.
place_piece(b, column) ==
    IF column < 0 \/ column >= columns_of(b)
    THEN [error |-> "ColumnOutOfBoundsException", board |-> b]
    ELSE LET row == next_open_row(b, column) IN
         IF row = None
         THEN [error |-> "ColumnFullException", board |-> b]
         ELSE [error |-> NoError,
               board |-> [b EXCEPT !.grid[row][column] = b.active_player_index]]

\* A variant of change_turn that leaves the active player.
change_turn_kept(b) == b

\* Board.change_turn
change_turn(b) == [b EXCEPT !.active_player_index = 1 - b.active_player_index]

\* A variant of the copy in which the first player is active.
copy_board_first_player(b) == NewBoard(b.grid, 0)

\* Board.__copy: a new Board with a deep copy of the grid.
copy_board(b) == NewBoard(b.grid, b.active_player_index)

\* Board.player_1_is_active
player_1_is_active(b) == b.active_player_index = 0

\* Board.__column_search_order: sorted(range(columns), key=|x - columns // 2|),
\* a stable sort, as an insertion into the sorted prefix after equal keys.
order_key(x, columns) ==
    IF x >= columns \div 2 THEN x - columns \div 2 ELSE columns \div 2 - x

\* A variant of the insertion that puts x before the equal keys.
RECURSIVE insert_sorted_before_equal(_, _, _)
insert_sorted_before_equal(s, x, columns) ==
    IF s = <<>> THEN <<x>>
    ELSE IF order_key(x, columns) <= order_key(Head(s), columns) THEN <<x>> \o s
    ELSE <<Head(s)>> \o insert_sorted_before_equal(Tail(s), x, columns)

RECURSIVE insert_sorted(_, _, _)
insert_sorted(s, x, columns) ==
    IF s = <<>> THEN <<x>>
    ELSE IF order_key(x, columns) < order_key(Head(s), columns) THEN <<x>> \o s
    ELSE <<Head(s)>> \o insert_sorted(Tail(s), x, columns)

RECURSIVE sorted_prefix(_, _)
sorted_prefix(n, columns) ==
    IF n = 0 THEN <<>>
    ELSE insert_sorted(sorted_prefix(n - 1, columns), n - 1, columns)

\* The numbers of columns of the boards of the specifications, and the order
\* Board.__init__ computes once for a board of each.
ColumnCounts == (1 .. MaxColumns) \cup {Columns, COLUMN_COUNT, GameColumns}

SearchOrders == [columns \in ColumnCounts |-> sorted_prefix(columns, columns)]

column_search_order(b) == SearchOrders[columns_of(b)]

\* A variant of the step of successors that works on self instead of a copy.
successor_step_in_place(self, column) ==
    LET moved == change_turn(place_piece(self, column).board) IN
    [self |-> moved, yield |-> moved]

\* A variant of the step of successors that does not change the turn.
successor_step_same_turn(self, column) ==
    LET new_board == copy_board(self) IN
    [self |-> self, yield |-> place_piece(new_board, column).board]

\* Board.successors, one column: new_board is a copy, the piece is placed
\* and the turn changed on the copy; self is the board enumerated.
successor_step(self, column) ==
    LET new_board == copy_board(self) IN
    [self |-> self, yield |-> change_turn(place_piece(new_board, column).board)]

\* Board.successors: the boards the generator yields, in order, and the
\* board enumerated as the enumeration leaves it.
RECURSIVE successors_from(_, _)
successors_from(self, i) ==
    IF i > Len(column_search_order(self)) THEN [self |-> self, yielded |-> <<>>]
    ELSE LET column == column_search_order(self)[i] IN
         IF column_is_full(self, column) THEN successors_from(self, i + 1)
         ELSE LET step == successor_step(self, column)
                  rest == successors_from(step.self, i + 1)
              IN  [self |-> rest.self, yielded |-> <<step.yield>> \o rest.yielded]

successors(b) == successors_from(b, 1)

\* Board.key: the symbol of the player in each cell, or None.
key(b) ==
    [r \in DOMAIN b.grid |-> [c \in DOMAIN b.grid[r] |->
        IF b.grid[r][c] = None THEN KeyNone ELSE Symbols[b.grid[r][c] + 1]]]

\* Board.heuristic_value: the groups of SEQ_LENGTH cells of the four loops.
VerticalGroups(rows, columns) ==
    {[i \in 0 .. SEQ_LENGTH - 1 |-> <<row + i, col>>] :
        row \in 0 .. rows - SEQ_LENGTH, col \in 0 .. columns - 1}
HorizontalGroups(rows, columns) ==
    {[i \in 0 .. SEQ_LENGTH - 1 |-> <<row, col + i>>] :
        row \in 0 .. rows - 1, col \in 0 .. columns - SEQ_LENGTH}
DownRightGroups(rows, columns) ==
    {[i \in 0 .. SEQ_LENGTH - 1 |-> <<row + i, col + i>>] :
        row \in 0 .. rows - SEQ_LENGTH, col \in 0 .. columns - SEQ_LENGTH}
DownLeftGroups(rows, columns) ==
    {[i \in 0 .. SEQ_LENGTH - 1 |-> <<row + i, col - i>>] :
        row \in 0 .. rows - SEQ_LENGTH, col \in SEQ_LENGTH - 1 .. columns - 1}

RECURSIVE SetToSeq(_)
SetToSeq(S) ==
    IF S = {} THEN <<>>
    ELSE LET x == CHOOSE y \in S : TRUE IN <<x>> \o SetToSeq(S \ {x})

Groups(rows, columns) ==
    SetToSeq(VerticalGroups(rows, columns)) \o SetToSeq(HorizontalGroups(rows, columns))
        \o SetToSeq(DownRightGroups(rows, columns))
        \o SetToSeq(DownLeftGroups(rows, columns))

\* The sizes of the boards of the specifications, and the groups of each.
Sizes ==
    {<<Rows, Columns>>, <<ROW_COUNT, COLUMN_COUNT>>, <<GameRows, GameColumns>>}
        \cup {<<OrderRows, columns>> : columns \in 1 .. MaxColumns}

GroupsBySize == [size \in Sizes |-> Groups(size[1], size[2])]

GroupsOf(grid) ==
    GroupsBySize[<<Cardinality(DOMAIN grid), Cardinality(DOMAIN grid[0])>>]

\* count_symbol: the cells of the group that hold the player.
count_symbol(b, player, group) ==
    Cardinality({i \in DOMAIN group : b.grid[group[i][1]][group[i][2]] = player})

\* POINTS_BY_COUNT.get((own, other), 0)
points_by_count(own, other) ==
    IF other # 0 THEN 0
    ELSE IF own = SEQ_LENGTH THEN 2 * VICTORY_VALUE
    ELSE IF own = SEQ_LENGTH - 1 THEN 300
    ELSE IF own = SEQ_LENGTH - 2 THEN 50
    ELSE IF own = SEQ_LENGTH - 3 THEN 10
    ELSE 0

\* A variant of score_group with the two advantages exchanged.
score_group_reversed(b, group) ==
    LET count_max == count_symbol(b, 0, group)
        count_min == count_symbol(b, 1, group)
    IN  points_by_count(count_min, count_max) - points_by_count(count_max, count_min)

score_group(b, group) ==
    LET count_max == count_symbol(b, 0, group)
        count_min == count_symbol(b, 1, group)
    IN  points_by_count(count_max, count_min) - points_by_count(count_min, count_max)

RECURSIVE sum_groups(_, _, _)
sum_groups(b, groups, i) ==
    IF i > Len(groups) THEN 0
    ELSE score_group(b, groups[i]) + sum_groups(b, groups, i + 1)

heuristic_value(b) ==
    IF check_for_draw(b) THEN 0 ELSE sum_groups(b, GroupsOf(b.grid), 1)

\* Board.status
status(b) ==
    LET value == heuristic_value(b) IN
    IF value >= VICTORY_VALUE THEN "PLAYER_1_WINS"
    ELSE IF value <= LOSS_VALUE THEN "PLAYER_2_WINS"
    ELSE IF check_for_draw(b) THEN "TIE"
    ELSE "ONGOING"

\* Board.is_game_over
is_game_over(b) == status(b) # "ONGOING"

\* Board.is_human_turn
is_human_turn(b) == players[b.active_player_index + 1].type = "HUMAN"

\* Board.active_player
active_player(b) == players[b.active_player_index + 1]

\* The number of pieces on a grid.
Pieces(b) ==
    Cardinality({rc \in (DOMAIN b.grid) \X (DOMAIN b.grid[0]) : b.grid[rc[1]][rc[2]] # None})

\* ------------------------------------------------ transposition_table.py
\* The table is an OrderedDict: a sequence of <<key, entry>> in the order of
\* the dictionary, the entry touched last at the end.
CacheEntry(value, best_move, min, max) ==
    [value |-> value, best_move |-> best_move, min |-> min, max |-> max]

\* key in table
tt_contains(table, k) == \E i \in 1 .. Len(table) : table[i][1] = k

tt_index(table, k) == CHOOSE i \in 1 .. Len(table) : table[i][1] = k

\* OrderedDict.move_to_end(key)
move_to_end(table, k) ==
    LET i == tt_index(table, k) IN
    SubSeq(table, 1, i - 1) \o SubSeq(table, i + 1, Len(table)) \o <<table[i]>>

\* A variant of __getitem__ that leaves the key where it is.
tt_getitem_unmoved(table, k) ==
    [entry |-> table[tt_index(table, k)][2], table |-> table]

\* TranspositionTable.__getitem__: the entry, and the table with the key last.
tt_getitem(table, k) ==
    [entry |-> table[tt_index(table, k)][2], table |-> move_to_end(table, k)]

\* A variant of __setitem__ that never deletes a key.
tt_setitem_unbounded(table, maxsize, k, entry) ==
    IF tt_contains(table, k)
    THEN LET moved == move_to_end(table, k) IN [moved EXCEPT ![Len(moved)] = <<k, entry>>]
    ELSE Append(table, <<k, entry>>)

\* TranspositionTable.__setitem__: move an existing key to the end, store the
\* entry, and delete the oldest key when the table holds more than maxsize.
tt_setitem(table, maxsize, k, entry) ==
    LET moved == IF tt_contains(table, k) THEN move_to_end(table, k) ELSE table
        stored == IF tt_contains(moved, k)
                  THEN [moved EXCEPT ![Len(moved)] = <<k, entry>>]
                  ELSE Append(moved, <<k, entry>>)
    IN  IF Len(stored) > maxsize THEN Tail(stored) ELSE stored

\* ------------------------------------------------- alpha_beta_pruning.py
\* bool(player): Player defines neither __bool__ nor __len__, so it is true.
truthy(player) == TRUE

\* An optional argument is <<>> when it is not given and <<v>> when it is.
NotGiven == <<>>
Given(v) == <<v>>

RECURSIVE minimax(_, _, _, _, _, _)
RECURSIVE search_loop(_, _, _, _, _, _, _, _, _)

\* A variant of the comparison in which an equal value replaces the best so far.
improves_or_equals(maximizing, succ_value, best_value) ==
    IF maximizing THEN succ_value >= best_value ELSE succ_value <= best_value

\* if succ_value > best_value (maximizing), if succ_value < best_value (minimizing)
improves(maximizing, succ_value, best_value) ==
    IF maximizing THEN succ_value > best_value ELSE succ_value < best_value

\* The for loop over board.successors(), from the i-th successor on: the best
\* value and move, alpha, beta and the table when the loop ends or breaks, and
\* the log of the calls made by the loop, in the order they were made.
search_loop(succs, i, maximizing, depth, alpha, beta, best_value, best_move, table) ==
    IF i > Len(succs)
    THEN [best_value |-> best_value, best_move |-> best_move,
          alpha |-> alpha, beta |-> beta, table |-> table, log |-> <<>>]
    ELSE LET successor == succs[i]
             r == minimax(successor, Given(~maximizing), depth - 1, alpha, beta, table)
             better == improves(maximizing, r.value, best_value)
             value1 == IF better THEN r.value ELSE best_value
             move1 == IF better THEN successor ELSE best_move
             alpha1 == IF maximizing THEN Max(alpha, value1) ELSE alpha
             beta1 == IF maximizing THEN beta ELSE Min(beta, value1)
         IN  IF alpha1 >= beta1
             THEN [best_value |-> value1, best_move |-> move1,
                   alpha |-> alpha1, beta |-> beta1, table |-> r.table, log |-> r.log]
             ELSE LET rest == search_loop(succs, i + 1, maximizing, depth, alpha1, beta1,
                                          value1, move1, r.table)
                  IN  [rest EXCEPT !.log = r.log \o @]

\* A variant of the classification with the two bounds exchanged.
classify_exchanged(best_value, best_move, alpha_0, beta) ==
    IF best_value <= alpha_0 THEN CacheEntry(best_value, best_move, TRUE, FALSE)
    ELSE IF best_value >= beta THEN CacheEntry(best_value, best_move, FALSE, TRUE)
    ELSE CacheEntry(best_value, best_move, FALSE, FALSE)

\* The entry minimax stores after its loop.
classify(best_value, best_move, alpha_0, beta) ==
    IF best_value <= alpha_0 THEN CacheEntry(best_value, best_move, FALSE, TRUE)
    ELSE IF best_value >= beta THEN CacheEntry(best_value, best_move, TRUE, FALSE)
    ELSE CacheEntry(best_value, best_move, FALSE, FALSE)

\* return entry.value, entry.best_move
cached_result(entry, table) ==
    [value |-> entry.value, move |-> entry.best_move, table |-> table, via |-> "table"]

\* A variant of the leaf's return with the sign of the value reversed.
leaf_result_negated(b, table) ==
    [value |-> -heuristic_value(b), move |-> b, table |-> table, via |-> "leaf"]

\* return board.heuristic_value(), board
leaf_result(b, table) ==
    [value |-> heuristic_value(b), move |-> b, table |-> table, via |-> "leaf"]

\* maximizing if maximizing is not None else not board.active_player
resolve_maximizing(b, maximizing) ==
    IF maximizing # NotGiven THEN maximizing[1] ELSE ~truthy(active_player(b))

\* A variant of the test that ends the recursion one level too late.
at_leaf_one_late(b, depth) == depth = -1 \/ is_game_over(b)

\* if depth == 0 or board.is_game_over()
at_leaf(b, depth) == depth = 0 \/ is_game_over(b)

\* What a call returns, with the log of the call and of the calls nested in
\* it (level 0 is the call itself): the depth and the Board object each was
\* given, the object as the call left it, the value and the move it returned
\* and the return statement it took.
returned(r, b, depth, after, nested) ==
    [value |-> r.value, move |-> r.move, table |-> r.table, via |-> r.via,
     log |-> <<[level |-> 0, depth |-> depth, board |-> b, after |-> after,
                value |-> r.value, move |-> r.move, via |-> r.via,
                recursed |-> nested # <<>>]>>
             \o [n \in 1 .. Len(nested) |-> [nested[n] EXCEPT !.level = @ + 1]]]

\* minimax(board, maximizing, depth, alpha, beta) on the table: the value and
\* the move it returns, the table it leaves, the return statement taken (the
\* table hit, the leaf, or the end of the loop), and the log of the calls.
minimax(b, maximizing_arg, depth, alpha_arg, beta_arg, table_0) ==
    LET maximizing == resolve_maximizing(b, maximizing_arg)
        alpha_0 == alpha_arg
        k == key(b)
        hit == tt_contains(table_0, k)
        got == tt_getitem(table_0, k)
        entry == got.entry
        table == IF hit THEN got.table ELSE table_0
        alpha == IF hit /\ entry.max THEN Max(alpha_arg, entry.value) ELSE alpha_arg
        beta == IF hit /\ ~entry.max /\ entry.min
                THEN Min(beta_arg, entry.value) ELSE beta_arg
    IN  IF hit /\ ((~entry.max /\ ~entry.min) \/ alpha >= beta)
        THEN returned(cached_result(entry, table), b, depth, b, <<>>)
        ELSE IF at_leaf(b, depth)
        THEN returned(leaf_result(b, table), b, depth, b, <<>>)
        ELSE LET enumerated == successors(b)
                 l == search_loop(enumerated.yielded, 1, maximizing, depth, alpha, beta,
                                  IF maximizing THEN NegInf ELSE PosInf, None, table)
             IN  returned([value |-> l.best_value, move |-> l.best_move,
                           table |-> tt_setitem(l.table, TABLE_SIZE, k,
                                        classify(l.best_value, l.best_move, alpha_0, l.beta)),
                           via |-> "loop"],
                          b, depth, enumerated.self, l.log)

\* ------------------------------------------- what the claims speak of
\* Player p has SEQ_LENGTH pieces in an unbroken row, column or diagonal.
HasFour(grid, p) ==
    LET groups == GroupsOf(grid) IN
    \E i \in 1 .. Len(groups) :
        \A j \in 0 .. SEQ_LENGTH - 1 : grid[groups[i][j][1]][groups[i][j][2]] = p

\* The column has an empty cell.
Open(grid, column) == \E r \in DOMAIN grid : grid[r][column] = None

\* The lowest empty cell of an open column.
LowestEmpty(grid, column) ==
    CHOOSE r \in DOMAIN grid :
        /\ grid[r][column] = None
        /\ \A below \in DOMAIN grid : below > r => grid[below][column] # None

\* The grid with one more piece of player p, in the lowest empty cell of the column.
Dropped(grid, column, p) ==
    [r \in DOMAIN grid |-> [c \in DOMAIN grid[r] |->
        IF c = column /\ r = LowestEmpty(grid, column) THEN p ELSE grid[r][c]]]

\* The position after the active player drops a piece in the column: the
\* piece is on the grid and the other player is active.
Played(b, column) ==
    [grid |-> Dropped(b.grid, column, b.active_player_index),
     active_player_index |-> 1 - b.active_player_index]

\* The columns where one placement gives the active player four in a row.
WinningColumns(b) ==
    {column \in DOMAIN b.grid[0] :
        /\ Open(b.grid, column)
        /\ HasFour(Dropped(b.grid, column, b.active_player_index),
                   b.active_player_index)}

\* ------------------------------------------------------ the operations
NoOp == [op |-> "init", column |-> None, error |-> NoError,
         before |-> NewBoard(EmptyGrid, 0), yielded |-> <<>>]

\* The table after the live Board object is changed in place: the entry that
\* holds the object as its best_move shows the change.
mutated_table(table, h, b) ==
    IF h # <<>> /\ tt_contains(table, h[1])
    THEN LET i == tt_index(table, h[1]) IN
         [table EXCEPT ![i] = <<table[i][1], [table[i][2] EXCEPT !.best_move = b]>>]
    ELSE table

\* play.py: the two players, each a human or an AI; game.py: the empty board.
Start(grid) ==
    /\ players \in {<<[symbol |-> Symbols[1], type |-> t1],
                      [symbol |-> Symbols[2], type |-> t2]>> :
                        t1 \in PlayerTypes, t2 \in PlayerTypes}
    /\ board = NewBoard(grid, 0)
    /\ tt = <<>>
    /\ held = <<>>
    /\ last = NoOp
    /\ calls = <<>>

\* The start on a board of Rows rows and Columns columns.
Init == Start(EmptyGrid)

\* The start of the program: Board(rows=ROW_COUNT, columns=COLUMN_COUNT).
InitProgram == Start(new_grid(ROW_COUNT, COLUMN_COUNT))

\* board.place_piece(column), called directly; an exception leaves the board.
PlacePiece(column) ==
    /\ LET r == place_piece(board, column) IN
        /\ board' = r.board
        /\ tt' = mutated_table(tt, held, r.board)
        /\ last' = [op |-> "place_piece", column |-> column, error |-> r.error,
                    before |-> board, yielded |-> <<>>]
    /\ UNCHANGED <<players, held, calls>>

\* board.change_turn()
ChangeTurn ==
    /\ board' = change_turn(board)
    /\ tt' = mutated_table(tt, held, change_turn(board))
    /\ last' = [op |-> "change_turn", column |-> None, error |-> NoError,
                before |-> board, yielded |-> <<>>]
    /\ UNCHANGED <<players, held, calls>>

\* list(board.successors())
Successors ==
    /\ LET r == successors(board) IN
        /\ board' = r.self
        /\ tt' = mutated_table(tt, held, r.self)
        /\ last' = [op |-> "successors", column |-> None, error |-> NoError,
                    before |-> board, yielded |-> r.yielded]
    /\ UNCHANGED <<players, held, calls>>

\* Game.handle_click(pos): place and change the turn on a human's turn when
\* the click is below the status bar; an illegal move is printed and dropped.
handle_click(b, pos) ==
    IF is_human_turn(b) /\ pos[2] > GRID_OFFSET
    THEN LET column == pos[1] \div SQUARE_WIDTH
             r == place_piece(b, column)
         IN  IF r.error = NoError
             THEN [error |-> NoError, column |-> column, board |-> change_turn(r.board)]
             ELSE [error |-> r.error, column |-> column, board |-> r.board]
    ELSE [error |-> NoError, column |-> None, board |-> b]

\* A click in each column and one right of the last column, on the status bar
\* and below it.
ClickPositions ==
    {<<x, y>> : x \in {c * SQUARE_WIDTH + 1 : c \in 0 .. columns_of(board)},
                y \in {GRID_OFFSET, GRID_OFFSET + 1}}

HandleClick(pos) ==
    /\ LET r == handle_click(board, pos) IN
        /\ board' = r.board
        /\ tt' = mutated_table(tt, held, r.board)
        /\ last' = [op |-> "handle_click", column |-> r.column, error |-> r.error,
                    before |-> board, yielded |-> <<>>]
    /\ UNCHANGED <<players, held, calls>>

\* What a call of minimax on the live board leaves in calls: its arguments,
\* the table before and after, what it returned, and its log.
CallRecord(maximizing, depth, alpha, beta, r) ==
    [board |-> board, maximizing |-> maximizing, depth |-> depth,
     alpha |-> alpha, beta |-> beta, table |-> tt,
     maximized |-> resolve_maximizing(board, maximizing),
     value |-> r.value, move |-> r.move, via |-> r.via,
     left |-> r.table, log |-> r.log]

\* minimax(board, maximizing, depth, alpha, beta) on the live board; the move
\* returned is only looked at.
Search(maximizing, depth, alpha, beta) ==
    /\ Len(calls) < MaxCalls
    /\ LET r == minimax(board, Given(maximizing), depth, alpha, beta, tt) IN
        /\ tt' = r.table
        /\ calls' = Append(calls, CallRecord(Given(maximizing), depth, alpha, beta, r))
    /\ UNCHANGED <<players, board, held, last>>

\* play.py: on an AI's turn, _, game.board = minimax(game.board).  The Board
\* returned becomes the live board: the best_move of the entry of the position
\* searched, or the board itself when minimax returned at its leaf.
\* The call is recorded after the calls in kept.
AITurnAfter(kept) ==
    /\ ~is_human_turn(board)
    /\ LET r == minimax(board, NotGiven, MAX_DEPTH, NegInf, PosInf, tt) IN
        /\ tt' = r.table
        /\ board' = r.move
        /\ held' = IF r.via = "leaf" THEN held ELSE <<key(board)>>
        /\ calls' = Append(kept, CallRecord(NotGiven, MAX_DEPTH, NegInf, PosInf, r))
    /\ last' = [op |-> "ai_turn", column |-> None, error |-> NoError,
                before |-> board, yielded |-> <<>>]
    /\ UNCHANGED players

\* An AI turn among at most MaxCalls calls, all of them recorded.
AITurn == Len(calls) < MaxCalls /\ AITurnAfter(calls)

\* An AI turn of a whole game: only the call of the latest turn is recorded.
AIMove == AITurnAfter(<<>>)

\* The keys and entries put into a table on its own: the keys of the empty
\* board and of its first three successors, and two entries that differ in
\* every field.
TableBoards ==
    LET first == successors(NewBoard(EmptyGrid, 0)).yielded IN
    {NewBoard(EmptyGrid, 0)} \cup {first[i] : i \in 1 .. 3}

TableKeys == {key(b) : b \in TableBoards}

TableEntries ==
    {CacheEntry(0, NewBoard(EmptyGrid, 0), FALSE, FALSE),
     CacheEntry(heuristic_value(CHOOSE b \in TableBoards : Pieces(b) = 1),
                NewBoard(EmptyGrid, 1), TRUE, FALSE)}

\* table[k] on a table of capacity TableCap: KeyError when the key is missing.
TableGet(k) ==
    /\ Len(calls) < MaxOps
    /\ tt' = IF tt_contains(tt, k) THEN tt_getitem(tt, k).table ELSE tt
    /\ calls' = Append(calls, [op |-> "getitem", key |-> k,
                                hit |-> tt_contains(tt, k), table |-> tt])
    /\ UNCHANGED <<players, board, held, last>>

\* table[k] = entry on a table of capacity TableCap.
TablePut(k, entry) ==
    /\ Len(calls) < MaxOps
    /\ tt' = tt_setitem(tt, TableCap, k, entry)
    /\ calls' = Append(calls, [op |-> "setitem", key |-> k,
                                entry |-> entry, table |-> tt])
    /\ UNCHANGED <<players, board, held, last>>

\* ------------------------------------------------------ specifications
\* The clicks on the grid, one in each column.
GridClicks == {<<c * SQUARE_WIDTH + 1, GRID_OFFSET + 1>> : c \in DOMAIN board.grid[0]}

\* A click that places a piece, while the board holds fewer than n pieces.
LegalClick(pos, n) ==
    /\ Pieces(board) < n
    /\ handle_click(board, pos).board # board
    /\ HandleClick(pos)

\* play.py: while not game.board.is_game_over()
Playing == ~is_game_over(board)

\* The board operations, in any order, on at most MaxPieces pieces.
NextBoard ==
    \/ \E column \in -1 .. Columns :
          /\ Pieces(place_piece(board, column).board) <= MaxPieces
          /\ PlacePiece(column)
    \/ ChangeTurn
    \/ Successors
    \/ \E pos \in ClickPositions :
          /\ Pieces(handle_click(board, pos).board) <= MaxPieces
          /\ HandleClick(pos)

SpecBoard == Init /\ [][NextBoard]_vars

\* Humans click and AIs move in turn, and minimax is called on the live board
\* with any arguments, all on one transposition table.
NextSearch ==
    \/ Playing /\ \E pos \in GridClicks : LegalClick(pos, SearchPieces)
    \/ Playing /\ Pieces(board) < SearchPieces /\ AITurn
    \/ \E maximizing \in BOOLEAN, depth \in 0 .. MaxDepth, window \in Windows :
          Search(maximizing, depth, window[1], window[2])

SpecSearch == Init /\ [][NextSearch]_vars

\* Humans click, and minimax is called once, on an empty table, maximizing for
\* the first player where one placement would give that player four in a row.
NextWin ==
    \/ calls = <<>> /\ Playing /\ \E pos \in GridClicks : LegalClick(pos, WinPieces)
    \/ \E depth \in 1 .. WinDepth :
          /\ calls = <<>>
          /\ player_1_is_active(board)
          /\ Playing
          /\ WinningColumns(board) # {}
          /\ Search(TRUE, depth, NegInf, PosInf)

SpecWin == Init /\ [][NextWin]_vars

\* Humans click until the game is over or the board is full.
NextFill == Playing /\ \E pos \in GridClicks : LegalClick(pos, Rows * Columns)

SpecFill == Init /\ [][NextFill]_vars

\* Humans click, and minimax is called once, on an empty table, with the
\* whole window and a depth up to DeepDepth, maximizing when the first player
\* is to move and minimizing when the second is.
NextDeep ==
    \/ calls = <<>> /\ Playing /\ \E pos \in GridClicks : LegalClick(pos, DeepPieces)
    \/ \E depth \in 0 .. DeepDepth :
          calls = <<>> /\ Search(player_1_is_active(board), depth, NegInf, PosInf)

SpecDeep == Init /\ [][NextDeep]_vars

\* On the board of the program, humans click, and minimax is called once, on
\* an empty table, maximizing with depth 1.
NextOpening ==
    \/ calls = <<>> /\ Playing /\ \E pos \in GridClicks : LegalClick(pos, OpeningPieces)
    \/ calls = <<>> /\ Search(TRUE, 1, NegInf, PosInf)

SpecOpening == InitProgram /\ [][NextOpening]_vars

\* The play and the calls of SpecSearch, and the enumeration of the successors
\* of the live board.
NextFrame ==
    \/ NextSearch
    \/ Successors

SpecFrame == Init /\ [][NextFrame]_vars

\* The play loop of play.py: while the game is not over, a human's click is
\* handled, and on an AI's turn the board becomes the move minimax returns.
NextPlay ==
    \/ Playing /\ \E pos \in GridClicks : LegalClick(pos, PlayPieces)
    \/ Playing /\ Pieces(board) < PlayPieces /\ AITurn

SpecPlay == Init /\ [][NextPlay]_vars

\* The start on a board of GameRows rows and GameColumns columns.
InitGame == Start(new_grid(GameRows, GameColumns))

\* A whole game through the play loop: while the game is not over, a click
\* anywhere is handled and an AI takes its turn; the successors of the live
\* board are enumerated at any time.
Turn ==
    \/ \E pos \in GridClicks : handle_click(board, pos).board # board /\ HandleClick(pos)
    \/ AIMove

NextGame ==
    \/ Playing /\ Turn
    \/ Playing /\ \E pos \in ClickPositions :
                    handle_click(board, pos).board = board /\ HandleClick(pos)
    \/ Successors

SpecGame == InitGame /\ [][NextGame]_vars

\* A turn can be taken: it is an AI's turn, or a click places a piece.
TurnPossible ==
    is_human_turn(board)
        => \E pos \in GridClicks : handle_click(board, pos).board # board

\* A step that is a turn: a click or an AI's turn that changes the board.
TurnTaken == last'.op \in {"handle_click", "ai_turn"} /\ board' # board

\* The whole game when turns are taken: the loop of play.py takes the AI's
\* turn whenever it is an AI's, and the humans go on placing pieces.  This is
\* weak fairness of Playing /\ Turn, with its enabling condition written out
\* as Playing /\ TurnPossible.
SpecGameFair ==
    SpecGame /\ (<>[](Playing /\ TurnPossible) => []<><<TurnTaken>>_vars)

\* The start of two humans on an empty board of OrderRows rows and
\* 1 .. MaxColumns columns.
InitOrder ==
    /\ \E columns \in 1 .. MaxColumns : Start(new_grid(OrderRows, columns))
    /\ \A p \in 1 .. 2 : players[p].type = "HUMAN"

\* Pieces are placed in the columns that are not full, column by column from
\* the left (no column to the right holds a piece yet), and the successors of
\* the board are enumerated.
NextOrder ==
    \/ \E column \in DOMAIN board.grid[0] :
          /\ ~column_is_full(board, column)
          /\ \A right \in DOMAIN board.grid[0] :
                right > column => board.grid[rows_of(board) - 1][right] = None
          /\ PlacePiece(column)
    \/ Successors

SpecOrder == InitOrder /\ [][NextOrder]_vars

\* Gets and puts, in any order, on a table of capacity TableCap.
NextTable ==
    \/ \E k \in TableKeys : TableGet(k)
    \/ \E k \in TableKeys, entry \in TableEntries : TablePut(k, entry)

SpecTable == Init /\ [][NextTable]_vars

\* ------------------------------------------------------------ the claims
\* C1: in a position where the first player is active, the game is not over
\* and one placement gives the first player four in a row, minimax called as
\* the maximizing side with depth >= 1 (on an empty table) returns a value
\* >= VICTORY_VALUE and, as its move, the position after a winning column
\* was played.
C1WinningMoveChosen ==
    \A i \in 1 .. Len(calls) :
        LET call == calls[i] IN
        (/\ call.maximized
         /\ call.depth >= 1
         /\ call.table = <<>>
         /\ player_1_is_active(call.board)
         /\ ~HasFour(call.board.grid, 0) /\ ~HasFour(call.board.grid, 1)
         /\ WinningColumns(call.board) # {})
        => /\ call.value >= VICTORY_VALUE
           /\ \E column \in WinningColumns(call.board) :
                call.move = Played(call.board, column)

\* C2: a call of minimax without the maximizing argument maximizes if and
\* only if the first player is the active player of the position.
C2DefaultMaximizing ==
    \A i \in 1 .. Len(calls) :
        calls[i].maximizing = NotGiven
            => (calls[i].maximized <=> player_1_is_active(calls[i].board))

\* C3: a position reached by alternating placements in which exactly one
\* player has four in a row has the status of a win for that player and a
\* heuristic value of magnitude >= VICTORY_VALUE.
C3FourIsWin ==
    /\ (HasFour(board.grid, 0) /\ ~HasFour(board.grid, 1))
         => status(board) = "PLAYER_1_WINS" /\ heuristic_value(board) >= VICTORY_VALUE
    /\ (HasFour(board.grid, 1) /\ ~HasFour(board.grid, 0))
         => status(board) = "PLAYER_2_WINS" /\ heuristic_value(board) <= LOSS_VALUE

\* The entry the table holds for the position of a call, and whether the
\* call returns it: it is exact, or its bound leaves no window.
CallHit(call) == tt_contains(call.table, key(call.board))
CallEntry(call) == call.table[tt_index(call.table, key(call.board))][2]
EntryDecides(call) ==
    /\ CallHit(call)
    /\ LET e == CallEntry(call) IN
        \/ ~e.max /\ ~e.min
        \/ e.max /\ Max(call.alpha, e.value) >= call.beta
        \/ ~e.max /\ e.min /\ call.alpha >= Min(call.beta, e.value)

\* C4 as stated: a call with depth 0 returns the heuristic value of the
\* position and the position itself, whatever the table holds.
C4DepthZeroAlways ==
    \A i \in 1 .. Len(calls) :
        calls[i].depth = 0
            => /\ calls[i].value = heuristic_value(calls[i].board)
               /\ calls[i].move = calls[i].board

\* C4 as amended: a call with depth 0 returns the heuristic value of the
\* position and the position itself unless the table holds an entry for the
\* position that is exact or whose bound makes alpha >= beta; then it returns
\* the value and the move of that entry.
C4DepthZero ==
    \A i \in 1 .. Len(calls) :
        LET call == calls[i] IN
        call.depth = 0
            => IF EntryDecides(call)
               THEN /\ call.value = CallEntry(call).value
                    /\ call.move = CallEntry(call).best_move
               ELSE /\ call.value = heuristic_value(call.board)
                    /\ call.move = call.board

\* C4, witness: a call with depth 0 on a table that holds a bound for the
\* position returned the heuristic value of a position that is not empty.
C4Witness ==
    \E i \in 1 .. Len(calls) :
        /\ calls[i].depth = 0
        /\ CallHit(calls[i])
        /\ ~EntryDecides(calls[i])
        /\ calls[i].value # 0

\* C5: a call on an empty table and the same call again, on the table the
\* first call left, return the same value and the same move.
C5Idempotent ==
    \A i \in 2 .. Len(calls) :
        LET first == calls[i - 1]
            again == calls[i]
        IN  (/\ first.table = <<>>
             /\ again.board = first.board
             /\ again.maximizing = first.maximizing
             /\ again.depth = first.depth
             /\ again.alpha = first.alpha
             /\ again.beta = first.beta)
            => again.value = first.value /\ again.move = first.move

\* C6: a call with depth >= 1 on a position of the play loop where the game
\* is not over returns as its move the position with one more piece of the
\* active player, in the lowest empty cell of a column, and with the other
\* player active, whatever earlier calls and turns left in the table.
C6MoveIsSuccessor ==
    \A i \in 1 .. Len(calls) :
        LET call == calls[i] IN
        (call.depth >= 1 /\ ~is_game_over(call.board))
            => \E column \in ColRange :
                /\ Open(call.board.grid, column)
                /\ call.move = Played(call.board, column)

\* C6, witness: a call with depth >= 1 answered from an entry that an earlier
\* call left in the table.
C6Witness ==
    \E i \in 1 .. Len(calls) :
        /\ calls[i].depth >= 1
        /\ ~is_game_over(calls[i].board)
        /\ calls[i].via = "table"
        /\ Pieces(calls[i].board) >= 1

\* C7: place_piece on a full column raises ColumnFullException and on a
\* column outside 0 .. Columns-1 raises ColumnOutOfBoundsException; the grid
\* is as before, and after handle_click the active player is as before too.
C7IllegalMove ==
    (last.op \in {"place_piece", "handle_click"} /\ last.column # None)
        => /\ (last.column < 0 \/ last.column >= Columns)
                => /\ last.error = "ColumnOutOfBoundsException"
                   /\ board.grid = last.before.grid
           /\ (last.column \in ColRange /\ ~Open(last.before.grid, last.column))
                => /\ last.error = "ColumnFullException"
                   /\ board.grid = last.before.grid
           /\ (last.op = "handle_click" /\ last.error # NoError)
                => board = last.before

\* C7, witness: a human's click on a full column.
C7Witness ==
    /\ last.op = "handle_click"
    /\ last.column \in ColRange
    /\ ~Open(last.before.grid, last.column)
    /\ last.error = "ColumnFullException"

\* C8: a place_piece that succeeds puts the active player's piece in the
\* lowest empty cell of the column and changes no other cell and not the
\* active player.
C8PlaceOneCell ==
    (last.op = "place_piece" /\ last.error = NoError)
        => /\ board.grid = Dropped(last.before.grid, last.column,
                                   last.before.active_player_index)
           /\ board.active_player_index = last.before.active_player_index

\* C8, witness: the second player places a piece on top of another piece.
C8Witness ==
    /\ last.op = "place_piece"
    /\ last.error = NoError
    /\ last.before.active_player_index = 1
    /\ last.before.grid[Rows - 1][last.column] # None

\* C9: successors() yields one position for each column that is not full and
\* none for a full column; each is the position enumerated with one piece of
\* its active player placed in that column and the other player active; the
\* position enumerated is as before.
C9Successors ==
    last.op = "successors"
        => LET b == last.before
               open == {c \in ColRange : Open(b.grid, c)}
           IN  /\ board = b
               /\ Len(last.yielded) = Cardinality(open)
               /\ \A c \in open :
                    Cardinality({i \in 1 .. Len(last.yielded) :
                                    last.yielded[i] = Played(b, c)}) = 1

\* C9, witness: an enumeration of a position with a full column, the second
\* player active.
C9Witness ==
    /\ last.op = "successors"
    /\ last.before.active_player_index = 1
    /\ \E c \in ColRange : ~Open(last.before.grid, c)
    /\ Len(last.yielded) = Columns - 1

\* A cell of the grid is occupied only if every cell below it is.
Gravity(grid) ==
    \A c \in DOMAIN grid[0] : \A r \in DOMAIN grid :
        grid[r][c] # None => \A below \in DOMAIN grid : below > r => grid[below][c] # None

\* C10: after any sequence of place_piece (raising or not), change_turn,
\* handle_click and successors, the board and every position yielded have
\* each column filled from the bottom up.
C10Gravity ==
    /\ Gravity(board.grid)
    /\ \A i \in 1 .. Len(last.yielded) : Gravity(last.yielded[i].grid)

\* C10, witness: a column with three pieces, and a position yielded from it.
C10Witness ==
    /\ \E c \in ColRange : board.grid[Rows - 3][c] # None /\ board.grid[0][c] = None
    /\ Len(last.yielded) = Columns

\* The empty board of the program, the first player to move.
ProgramBoard == NewBoard(new_grid(ROW_COUNT, COLUMN_COUNT), 0)

\* C12: on the empty 6 x 7 board with the first player to move and an empty
\* table, minimax with depth 1, maximizing, finds no entry for the position
\* and returns as its move the position with one piece, in column 3.
C12CenterOpening ==
    \A i \in 1 .. Len(calls) :
        LET call == calls[i] IN
        (call.board = ProgramBoard /\ call.table = <<>> /\ call.depth = 1
                /\ call.maximized)
            => /\ ~CallHit(call)
               /\ call.via = "loop"
               /\ call.move = Played(ProgramBoard, 3)
               /\ Pieces(call.move) = 1
               /\ COLUMN_COUNT \div 2 = 3

\* C12, witness: the call on the empty 6 x 7 board was made.
C12Witness ==
    \E i \in 1 .. Len(calls) :
        /\ calls[i].board = ProgramBoard
        /\ rows_of(calls[i].board) = ROW_COUNT /\ columns_of(calls[i].board) = COLUMN_COUNT
        /\ calls[i].depth = 1 /\ calls[i].maximized /\ calls[i].table = <<>>
        /\ calls[i].value > 0

\* Minimax over heuristic_value without a window and without a table: the
\* value of a position where the game is over or the depth is 0 is its
\* heuristic value, that of another position the greatest (maximizing) or
\* the least value of its successors.
RECURSIVE PlainValue(_, _, _)
PlainValue(b, maximizing, depth) ==
    IF depth = 0 \/ is_game_over(b) THEN heuristic_value(b)
    ELSE LET succs == successors(b).yielded
             values == {PlainValue(succs[i], ~maximizing, depth - 1) :
                            i \in 1 .. Len(succs)}
         IN  IF maximizing
             THEN CHOOSE v \in values : \A w \in values : v >= w
             ELSE CHOOSE v \in values : \A w \in values : v <= w

\* C13: on a position reached by alternating play, minimax called on an empty
\* table with alpha = -infinity and beta = +infinity returns the value plain
\* minimax of the same depth gives the position.
C13PlainValue ==
    \A i \in 1 .. Len(calls) :
        LET call == calls[i] IN
        (call.table = <<>> /\ call.alpha = NegInf /\ call.beta = PosInf)
            => call.value = PlainValue(call.board, call.maximized, call.depth)

\* The table after the i-th get or put, its keys, and its entry for a key.
TableAfter(i) == IF i < Len(calls) THEN calls[i + 1].table ELSE tt
KeysOf(table) == {table[j][1] : j \in 1 .. Len(table)}
EntryOf(table, k) == table[tt_index(table, k)][2]

\* The i-th operation touches its key: a put, or a get that hits.
Touches(i) == calls[i].op = "setitem" \/ calls[i].hit

\* The last operation before the i-th that touched the key.
LastTouch(k, i) ==
    CHOOSE j \in 1 .. i - 1 :
        /\ calls[j].key = k /\ Touches(j)
        /\ \A later \in j + 1 .. i - 1 : ~(calls[later].key = k /\ Touches(later))

\* The key of the table before the i-th operation that was touched least recently.
LeastRecent(i) ==
    CHOOSE k \in KeysOf(calls[i].table) :
        \A other \in KeysOf(calls[i].table) : LastTouch(k, i) <= LastTouch(other, i)

\* The i-th operation is a put of a new key into a table that is full.
Overflows(i) ==
    /\ calls[i].op = "setitem"
    /\ calls[i].key \notin KeysOf(calls[i].table)
    /\ Len(calls[i].table) = TableCap

\* C11: a put that brings the number of keys above the capacity removes the
\* key touched least recently by a get that hit or a put, and no other; a put
\* that does not, removes none; and a get of a key followed at once by a put
\* of that key leaves the key in the table.
C11Eviction ==
    \A i \in 1 .. Len(calls) :
        /\ Overflows(i)
            => /\ KeysOf(TableAfter(i)) =
                    (KeysOf(calls[i].table) \cup {calls[i].key}) \ {LeastRecent(i)}
               /\ Len(TableAfter(i)) = TableCap
        /\ (calls[i].op = "setitem" /\ ~Overflows(i))
            => KeysOf(TableAfter(i)) = KeysOf(calls[i].table) \cup {calls[i].key}
        /\ (i > 1 /\ calls[i].op = "setitem" /\ calls[i - 1].op = "getitem"
                  /\ calls[i - 1].key = calls[i].key)
            => calls[i].key \in KeysOf(TableAfter(i))

\* C11, witness: a put removed a key that was put after another one, which a
\* get had touched since.
C11Witness ==
    \E i \in 1 .. Len(calls) :
        /\ Overflows(i)
        /\ \E j \in 1 .. i - 1 :
            /\ calls[j].op = "getitem" /\ calls[j].hit
            /\ Len(calls[j].table) = TableCap
            /\ calls[j].key = calls[j].table[1][1]
            /\ calls[j].key \in KeysOf(TableAfter(i))

\* C18: the table never holds more than TableCap entries, and a put of a key
\* it holds leaves the number of entries, makes the entry of the key the entry
\* put, and leaves the entry of every other key.
C18Capacity ==
    /\ Len(tt) <= TableCap
    /\ \A i \in 1 .. Len(calls) :
        (calls[i].op = "setitem" /\ calls[i].key \in KeysOf(calls[i].table))
            => /\ Len(TableAfter(i)) = Len(calls[i].table)
               /\ EntryOf(TableAfter(i), calls[i].key) = calls[i].entry
               /\ \A k \in KeysOf(calls[i].table) \ {calls[i].key} :
                    /\ k \in KeysOf(TableAfter(i))
                    /\ EntryOf(TableAfter(i), k) = EntryOf(calls[i].table, k)

\* C18, witness: a full table, and a put that replaced the other entry of a
\* key the table held.
C18Witness ==
    /\ Len(tt) = TableCap
    /\ \E i \in 1 .. Len(calls) :
        /\ calls[i].op = "setitem"
        /\ calls[i].key \in KeysOf(calls[i].table)
        /\ EntryOf(calls[i].table, calls[i].key) # calls[i].entry

\* The beta a call compares its best value with when it stores its entry: the
\* beta it was given, lowered by the bound the table held for the position,
\* and lowered by the best value when the call minimizes.
BetaAtStore(call) ==
    LET given == IF CallHit(call) /\ ~CallEntry(call).max /\ CallEntry(call).min
                 THEN Min(call.beta, CallEntry(call).value) ELSE call.beta
    IN  IF call.maximized THEN given ELSE Min(given, call.value)

\* The number of entries a table holds under a key.
EntriesUnder(table, k) == Cardinality({j \in 1 .. Len(table) : table[j][1] = k})

\* C14: a call that ran the loop over the successors leaves in the table one
\* entry under the key of its position, put last: its value and move are the
\* ones returned; it has max set if the value is <= the alpha the call was
\* given, else min set if the value is >= the beta at that point, else neither.
C14StoredEntry ==
    \A i \in 1 .. Len(calls) :
        LET call == calls[i]
            k == key(call.board)
            bounded_below == call.value <= call.alpha
        IN  call.via = "loop"
                => /\ EntriesUnder(call.left, k) = 1
                   /\ call.left[Len(call.left)][1] = k
                   /\ EntryOf(call.left, k)
                        = [value |-> call.value, best_move |-> call.move,
                           max |-> bounded_below,
                           min |-> ~bounded_below /\ call.value >= BetaAtStore(call)]

\* C14, witness: a call whose beta the table lowered ran the loop and stored
\* an entry with max set, replacing the entry the table held.
C14Witness ==
    \E i \in 1 .. Len(calls) :
        /\ calls[i].via = "loop"
        /\ CallHit(calls[i])
        /\ BetaAtStore(calls[i]) < calls[i].beta
        /\ calls[i].maximized
        /\ EntryOf(calls[i].left, key(calls[i].board)).max
        /\ EntryOf(calls[i].left, key(calls[i].board)) # CallEntry(calls[i])

\* The calls a logged call made itself, in the order it made them: the n-th
\* entry of the log is the caller, and its calls are the entries one level
\* below it that come before the next entry of its own level or above.
MadeBy(log, n) ==
    {m \in n + 1 .. Len(log) :
        /\ log[m].level = log[n].level + 1
        /\ \A j \in n + 1 .. m - 1 : log[j].level > log[n].level}

\* The first of the calls made by the n-th whose value is the one it returned.
FirstBest(log, n) ==
    CHOOSE m \in MadeBy(log, n) :
        /\ log[m].value = log[n].value
        /\ \A j \in MadeBy(log, n) : log[j].value = log[n].value => m <= j

\* C15: a call that returns from its loop, at any level, returns as its move
\* the first successor it visited whose value is the value it returns; and
\* two calls on the same position, arguments and table return the same.
C15FirstBestMove ==
    /\ \A i \in 1 .. Len(calls) :
          \A n \in 1 .. Len(calls[i].log) :
              LET log == calls[i].log IN
              log[n].via = "loop"
                  => /\ \E m \in MadeBy(log, n) : log[m].value = log[n].value
                     /\ log[n].move = log[FirstBest(log, n)].board
    /\ \A i, j \in 1 .. Len(calls) :
          (/\ calls[i].board = calls[j].board
           /\ calls[i].maximizing = calls[j].maximizing
           /\ calls[i].depth = calls[j].depth
           /\ calls[i].alpha = calls[j].alpha
           /\ calls[i].beta = calls[j].beta
           /\ calls[i].table = calls[j].table)
              => calls[i].value = calls[j].value /\ calls[i].move = calls[j].move

\* C15, witness: a call returned from its loop after a later successor had
\* returned the same value as the move it returns.
C15Witness ==
    \E i \in 1 .. Len(calls) :
        \E n \in 1 .. Len(calls[i].log) :
            LET log == calls[i].log IN
            /\ log[n].via = "loop"
            /\ \E m \in MadeBy(log, n) :
                  /\ m > FirstBest(log, n)
                  /\ log[m].value = log[n].value
                  /\ log[m].board # log[n].move

\* The distance of a column from the middle column of a board of C columns.
FromMiddle(column, C) ==
    LET d == column - C \div 2 IN IF d < 0 THEN -d ELSE d

\* Column x comes before column y in the order of the columns of a board of
\* C columns: it is nearer the middle, or as near and has the lower index.
Precedes(x, y, C) ==
    \/ FromMiddle(x, C) < FromMiddle(y, C)
    \/ FromMiddle(x, C) = FromMiddle(y, C) /\ x < y

\* The open columns of a board.
OpenColumns(b) == {column \in DOMAIN b.grid[0] : Open(b.grid, column)}

\* C16: successors() on a board of any number of columns yields one position
\* for each open column and none for a full one, the position after the
\* column was played, in the order of distance from the middle column with
\* the lower index first among equals; on an empty board of 7 columns the
\* columns are 3, 2, 4, 1, 5, 0, 6.
C16ColumnOrder ==
    last.op = "successors"
        => LET b == last.before
               C == columns_of(b)
               visited == [i \in 1 .. Len(last.yielded) |->
                              CHOOSE column \in -1 .. C - 1 :
                                  \/ /\ column \in OpenColumns(b)
                                     /\ last.yielded[i] = Played(b, column)
                                  \/ /\ column = -1
                                     /\ \A open \in OpenColumns(b) :
                                           last.yielded[i] # Played(b, open)]
           IN  /\ {visited[i] : i \in 1 .. Len(visited)} = OpenColumns(b)
               /\ \A i, j \in 1 .. Len(visited) :
                     i < j => Precedes(visited[i], visited[j], C)
               /\ (C = 7 /\ Pieces(b) = 0) => visited = <<3, 2, 4, 1, 5, 0, 6>>

\* C16, witness: the successors of a board of 6 columns with a full column on
\* each side of the middle were enumerated, and two columns as near the
\* middle as each other were yielded.
C16Witness ==
    /\ last.op = "successors"
    /\ columns_of(last.before) = 6
    /\ ~Open(last.before.grid, 2)
    /\ ~Open(last.before.grid, 5)
    /\ Len(last.yielded) = 4
    /\ last.yielded[2] = Played(last.before, 4)

\* C17: in the tree of calls under a call of minimax with depth >= 0 (the
\* tree is finite: the call returned), a call nested n levels below the first
\* has the depth of the first less n, so each has a depth one less than its
\* caller's; no call has a depth below 0, none is nested deeper than the
\* depth of the first, and a call made further calls only with a depth above
\* 0 on a position where the game was not over.
C17DepthBound ==
    \A i \in 1 .. Len(calls) :
        LET call == calls[i]
            log == call.log
        IN  /\ Len(log) >= 1
            /\ log[1].level = 0
            /\ \A n \in 1 .. Len(log) :
                  /\ n > 1 => log[n].level \in 1 .. log[n - 1].level + 1
                  /\ log[n].depth = call.depth - log[n].level
                  /\ log[n].depth >= 0
                  /\ log[n].level <= call.depth
                  /\ log[n].recursed
                        => log[n].depth > 0 /\ ~is_game_over(log[n].board)

\* C17, witness: a call with depth >= 3 reached depth 0 and, above depth 0,
\* a position where the game was over.
C17Witness ==
    \E i \in 1 .. Len(calls) :
        LET log == calls[i].log IN
        /\ calls[i].depth >= 3
        /\ \E n \in 1 .. Len(log) : log[n].depth = 0 /\ log[n].level = calls[i].depth
        /\ \E n \in 1 .. Len(log) :
              /\ log[n].depth > 0
              /\ log[n].via = "leaf"
              /\ is_game_over(log[n].board)

\* Every call in the tree of a call left the Board object it was given as it
\* was: the same grid and the same active player.
PositionsKept(call) ==
    \A n \in 1 .. Len(call.log) : call.log[n].after = call.log[n].board

\* The entries of a table, each with its key.
EntriesOf(table) == {table[j] : j \in 1 .. Len(table)}

\* A call that returned from the table or at the leaf put no entry: the table
\* holds the entries it held.
NoEntryWritten(call) ==
    call.via \in {"table", "leaf"} => EntriesOf(call.left) = EntriesOf(call.table)

\* C19: a call of minimax leaves every position it is given or visits as it
\* was; a call that returns from the table or at the leaf writes no entry;
\* and a step that is not a call of minimax (a click, which places a piece
\* and changes the turn, or an enumeration of successors) leaves the table
\* and everything its entries record as they were.
C19Frame ==
    [][/\ \A i \in 1 .. Len(calls') :
            PositionsKept(calls'[i]) /\ NoEntryWritten(calls'[i])
       /\ calls' = calls => tt' = tt]_vars

\* C20: on every AI turn of a game played through the play loop, on the table
\* the earlier turns left, minimax returns the value and the move that the
\* same call returns on an empty table.
C20TableTransparent ==
    \A i \in 1 .. Len(calls) :
        LET call == calls[i]
            cold == minimax(call.board, call.maximizing, call.depth,
                            call.alpha, call.beta, <<>>)
        IN  call.maximizing = NotGiven
                => call.value = cold.value /\ call.move = cold.move

\* The number of pieces of player p on a grid.
PiecesOf(grid, p) ==
    Cardinality({rc \in (DOMAIN grid) \X (DOMAIN grid[0]) : grid[rc[1]][rc[2]] = p})

\* The grid tells the active player: the first when both players have as
\* many pieces, the second when the first has one more.
GridTellsTurn(b) ==
    /\ b.active_player_index = 0 <=> PiecesOf(b.grid, 0) = PiecesOf(b.grid, 1)
    /\ b.active_player_index = 1 <=> PiecesOf(b.grid, 0) = PiecesOf(b.grid, 1) + 1

\* The positions of a state: the live board, the successors enumerated last,
\* the positions the latest call of minimax was given, visited and returned,
\* and the best moves of the entries of the table.
PositionsOf(table) == {table[j][2].best_move : j \in 1 .. Len(table)}
Reached ==
    {board} \cup {last.yielded[i] : i \in 1 .. Len(last.yielded)}
        \cup PositionsOf(tt)
        \cup UNION {{calls[i].board, calls[i].move}
                        \cup {calls[i].log[n].board : n \in 1 .. Len(calls[i].log)}
                        \cup {calls[i].log[n].move : n \in 1 .. Len(calls[i].log)}
                     : i \in 1 .. Len(calls)}

\* C21: in every position reached from the empty board through the play loop,
\* the search and successors(), the first player is active iff both players
\* have as many pieces and the second iff the first has one more; so no two
\* of them have the same key and different active players.
C21GridTellsTurn ==
    /\ \A b \in Reached : GridTellsTurn(b)
    /\ \A b1, b2 \in Reached :
          key(b1) = key(b2) => b1.active_player_index = b2.active_player_index

\* C21, witness: after an AI turn, the successors of a board of three pieces
\* or more with the second player active were enumerated, and the table
\* holds a best move of two pieces or more with the first player active.
C21Witness ==
    /\ last.op = "successors"
    /\ Len(last.yielded) >= 2
    /\ board.active_player_index = 1
    /\ Pieces(board) >= 3
    /\ calls # <<>>
    /\ \E b \in PositionsOf(tt) : b.active_player_index = 0 /\ Pieces(b) >= 2

\* The position a key denotes: the grid of the key, and the active player
\* the grid tells.
KeyGrid(k) ==
    [r \in DOMAIN k |-> [c \in DOMAIN k[r] |->
        IF k[r][c] = KeyNone THEN None
        ELSE IF k[r][c] = Symbols[1] THEN 0 ELSE 1]]
KeyPosition(k) ==
    LET grid == KeyGrid(k) IN
    NewBoard(grid, IF PiecesOf(grid, 0) = PiecesOf(grid, 1) THEN 0 ELSE 1)

\* C22: in the play loop, after AI turns and human clicks, the best move of
\* every entry of the table is the position its key denotes with one piece
\* more, played by the active player in an open column.
C22BestMoveIsSuccessor ==
    \A j \in 1 .. Len(tt) :
        LET position == KeyPosition(tt[j][1]) IN
        \E column \in OpenColumns(position) :
            tt[j][2].best_move = Played(position, column)

\* A step of the play loop that is a click, and one that is an AI's turn.
ClickStep == last'.op = "handle_click" /\ last'.before = board /\ last' # last
AIStep == last'.op = "ai_turn" /\ last'.before = board /\ last' # last

\* The click is a legal move: on the grid, on a human's turn, in a column of
\* the board that is not full.
LegalStep ==
    /\ ClickStep
    /\ is_human_turn(board)
    /\ last'.column \in OpenColumns(board)

\* One more piece on the board than before, and the other player active.
OneMorePiece ==
    /\ Pieces(board') = Pieces(board) + 1
    /\ board'.active_player_index = 1 - board.active_player_index

=============================================================================
